---- MODULE Spec2Model ----
(***************************************************************************)
(* Model of ledger-v1 (src/ledger-v1/src/main.rs): a hash-linked chain of  *)
(* blocks kept in a sled key-value store under content-derived keys, with  *)
(* a reserved key "LAST" holding the tip, and a backward validation walk.  *)
(*                                                                         *)
(* Strings are modelled by small integers: a payload is an index into the  *)
(* payload alphabet, a hash is a natural number >= 1 (a 64-character hex   *)
(* digest), the root sentinel "0" is 0 and the key "LAST" is -1.  Stored   *)
(* bytes are records tagged with what they decode to.                      *)
(***************************************************************************)
EXTENDS Integers, Sequences, FiniteSets, TLC

\* ---------------------------------------------------------------- bounds
MaxTs == 1          \* Utc::now() yields a timestamp in 0..MaxTs
MaxPayload == 1     \* payloads are 0..MaxPayload
MaxAppend == 2      \* number of add_block calls in a behaviour
MaxTamper == 1      \* number of out-of-band modifications of the store files

\* ------------------------------------------------------ program constants
ROOT == 0                    \* the literal "0" of the genesis prev_hash
LAST == 0 - 1                \* the reserved key "LAST"
GenesisData == 0             \* the payload "Genesis Block"
MainData == 1                \* the payload "Transaction: User A -> User B"

\* the wall clock is not monotonic: any call may read any timestamp
Timestamps == 0..MaxTs
\* the code never looks into a payload: payload 0 is the text
\* "Genesis Block", which a caller may append too, payload 1 is the text main
\* appends, and any further index is any other text, the empty one included
Payloads == 0..MaxPayload

VARIABLES
    disk,          \* the persisted content of the sled store "my_db"
    pending,       \* writes accepted by sled and not yet flushed, in order
    pc,            \* "closed" (no Blockchain value), "open", "validating"
    current_hash,  \* Blockchain.current_hash, the in-memory tip
    search_hash,   \* the loop variable of is_chain_valid
    result,        \* what the last completed call returned and printed
    dbBefore,      \* history: the store as the last call found it
    tipBefore,     \* history: current_hash as the last call found it
    prevVal,       \* history: result of the directly preceding is_chain_valid
    tamper,        \* history: the last out-of-band modification
    ntamper,       \* history: number of out-of-band modifications
    nappend,       \* history: number of add_block calls
    faults,        \* history: some call failed or the process crashed
    appended,      \* history: payload and hash of each add_block that returned Ok
    opened         \* history: how new built the chain ("genesis" or "loaded")
                   \* and how many blocks had been appended by then

vars == <<disk, pending, pc, current_hash, search_hash, result, dbBefore,
          tipBefore, prevVal, tamper, ntamper, nappend, faults, appended,
          opened>>

\* ------------------------------------------------------------ the store
Put(s, k, v) == [x \in (DOMAIN s) \cup {k} |-> IF x = k THEN v ELSE s[x]]

Del(s, k) == [x \in (DOMAIN s) \ {k} |-> s[x]]

RECURSIVE ApplyLog(_, _)
ApplyLog(s, log) ==
    IF log = <<>> THEN s
    ELSE ApplyLog(Put(s, log[1][1], log[1][2]), Tail(log))

\* what db.get sees: the persisted content overlaid with the unflushed writes
db == ApplyLog(disk, pending)

EmptyStore == [x \in {} |-> 0]

\* ------------------------------------------------------------ encodings
\* variant: the hash field is left out of the serialized record
to_json_SkipHash(b) == [kind |-> "json", timestamp |-> b.timestamp, data |-> b.data,
                        prev_hash |-> b.prev_hash, hash |-> 0]

\* serde_json::to_string(&block).as_bytes()
to_json(b) == [kind |-> "json", timestamp |-> b.timestamp, data |-> b.data,
               prev_hash |-> b.prev_hash, hash |-> b.hash]

\* variant: the hash is stored as its JSON text, quotes included, which is
\* the text of no hash
as_bytes_Quoted(h) == [kind |-> "utf8", timestamp |-> 0, data |-> 0,
                       prev_hash |-> 0, hash |-> 0 - (h + 1)]

\* hash.as_bytes()
as_bytes(h) == [kind |-> "utf8", timestamp |-> 0, data |-> 0,
                prev_hash |-> 0, hash |-> h]

\* bytes that are not UTF-8, and UTF-8 text that is not the JSON of a Block
Garbage(kind) == [kind |-> kind, timestamp |-> 0, data |-> 0,
                  prev_hash |-> 0, hash |-> 0]

\* serde_json::from_str::<Block> of bytes tagged "json"
from_json(v) == [timestamp |-> v.timestamp, data |-> v.data,
                 prev_hash |-> v.prev_hash, hash |-> v.hash]

\* ------------------------------------------------------------ the block
\* variant: the payload is left out of the hashed tuple
calculate_hash_NoData(timestamp, data, prev_hash) ==
    1 + timestamp + (MaxTs + 1) * ((MaxPayload + 1) * prev_hash)

\* SHA-256 over the JSON of (timestamp, data, prev_hash): an injective
\* encoding of the triple, never "0" and never "LAST"
calculate_hash(timestamp, data, prev_hash) ==
    1 + timestamp + (MaxTs + 1) * (data + (MaxPayload + 1) * prev_hash)

\* variant: the hash is computed before prev_hash is filled in
BlockNew_HashBeforeLink(data, prev_hash, timestamp) ==
    [timestamp |-> timestamp, data |-> data, prev_hash |-> prev_hash,
     hash |-> calculate_hash(timestamp, data, ROOT)]

\* variant: the block is not linked to the tip it was given
BlockNew_NoLink(data, prev_hash, timestamp) ==
    [timestamp |-> timestamp, data |-> data, prev_hash |-> ROOT,
     hash |-> calculate_hash(timestamp, data, ROOT)]

BlockNew(data, prev_hash, timestamp) ==
    [timestamp |-> timestamp, data |-> data, prev_hash |-> prev_hash,
     hash |-> calculate_hash(timestamp, data, prev_hash)]

\* ------------------------------------------------------------ histories
\* appended and opened are kept as long as no call has failed, the process
\* has not crashed and the store files were not edited; after that they are
\* empty
Tracked(failed, edits, value, empty) ==
    IF failed \/ edits > 0 THEN empty ELSE value

NotOpened == [how |-> "none", had |-> 0]

\* ------------------------------------------------------------ results
NoResult == [op |-> "none", ret |-> "", msg |-> "", at |-> 0]
Res(op, ret, msg, at) == [op |-> op, ret |-> ret, msg |-> msg, at |-> at]

NoTamper == [kind |-> "none", key |-> 0, val |-> Garbage("absent")]

Init ==
    /\ disk = EmptyStore
    /\ pending = <<>>
    /\ pc = "closed"
    /\ current_hash = ROOT
    /\ search_hash = ROOT
    /\ result = NoResult
    /\ dbBefore = EmptyStore
    /\ tipBefore = ROOT
    /\ prevVal = NoResult
    /\ tamper = NoTamper
    /\ ntamper = 0
    /\ nappend = 0
    /\ faults = FALSE
    /\ appended = <<>>
    /\ opened = NotOpened

\* ------------------------------------------------------- Blockchain::new
\* variant: the tip key is not written on the first run
GenesisWrites_NoTip(genesis) ==
    << <<genesis.hash, to_json(genesis)>> >>

\* the two inserts of the first run, in program order
GenesisWrites(genesis) ==
    << <<genesis.hash, to_json(genesis)>>, <<LAST, as_bytes(genesis.hash)>> >>

\* variant: String::from_utf8_lossy, which accepts any bytes
from_utf8_Lossy(bytes) == [ok |-> TRUE, text |-> bytes.hash]

\* String::from_utf8 of the tip bytes
from_utf8(bytes) ==
    IF bytes.kind = "badutf8" THEN [ok |-> FALSE, text |-> 0]
    ELSE [ok |-> TRUE, text |-> bytes.hash]

OpenFails == {"none", "open", "get", "insert_block", "insert_last"}

\* Blockchain::new; fail names the store operation that returns an error.
\* When new returns Err the sled handle is dropped, which flushes.
Open(fail, timestamp) ==
    /\ pc = "closed"
    /\ dbBefore' = db
    /\ tipBefore' = current_hash
    /\ prevVal' = NoResult
    /\ UNCHANGED <<search_hash, tamper, ntamper, nappend>>
    /\ IF fail \in {"open", "get"}
       THEN /\ result' = Res("open", "Err", "StoreError", 0)
            /\ faults' = TRUE
            /\ UNCHANGED <<disk, pending, pc, current_hash>>
       ELSE IF LAST \in DOMAIN db
       THEN /\ fail = "none"
            /\ IF ~from_utf8(db[LAST]).ok
               THEN /\ result' = Res("open", "Err", "DecodeError", 0)
                    /\ faults' = TRUE
                    /\ UNCHANGED <<disk, pending, pc, current_hash>>
               ELSE /\ result' = Res("open", "Ok", "", from_utf8(db[LAST]).text)
                    /\ current_hash' = from_utf8(db[LAST]).text
                    /\ pc' = "open"
                    /\ UNCHANGED <<disk, pending, faults>>
       ELSE LET genesis == BlockNew(GenesisData, ROOT, timestamp)
                w == GenesisWrites(genesis)
            IN  CASE fail = "insert_block" ->
                       /\ result' = Res("open", "Err", "StoreError", 0)
                       /\ faults' = TRUE
                       /\ UNCHANGED <<disk, pending, pc, current_hash>>
                  [] fail = "insert_last" ->
                       /\ result' = Res("open", "Err", "StoreError", 0)
                       /\ faults' = TRUE
                       /\ disk' = ApplyLog(disk, <<w[1]>>)
                       /\ UNCHANGED <<pending, pc, current_hash>>
                  [] OTHER ->
                       /\ result' = Res("open", "Ok", "", genesis.hash)
                       /\ pending' = w
                       /\ current_hash' = genesis.hash
                       /\ pc' = "open"
                       /\ UNCHANGED <<disk, faults>>
    /\ appended' = Tracked(faults', ntamper, appended, <<>>)
    /\ opened' = Tracked(faults', ntamper,
                    IF pc' = "closed" THEN NotOpened
                    ELSE [how |-> IF LAST \in DOMAIN db THEN "loaded" ELSE "genesis",
                          had |-> Len(appended)],
                    NotOpened)

\* ------------------------------------------------- Blockchain::add_block
\* variant: the tip key is written before the block record
AddBlockWrites_TipFirst(new_block) ==
    << <<LAST, as_bytes(new_block.hash)>>,
       <<new_block.hash, to_json(new_block)>> >>

\* variant: the tip key is written with the hash of the predecessor
AddBlockWrites_StaleTip(new_block) ==
    << <<new_block.hash, to_json(new_block)>>,
       <<LAST, as_bytes(new_block.prev_hash)>> >>

\* the two inserts of add_block, in program order
AddBlockWrites(new_block) ==
    << <<new_block.hash, to_json(new_block)>>,
       <<LAST, as_bytes(new_block.hash)>> >>

\* variant: the tip is advanced before the first insert
TipAfterAdd_Always(fail, old_hash, new_hash) == new_hash

\* the in-memory tip add_block leaves when the store operation `fail` fails
TipAfterAdd(fail, old_hash, new_hash) ==
    IF fail \in {"insert_block", "insert_last"} THEN old_hash ELSE new_hash

AddFails == {"none", "insert_block", "insert_last", "flush"}

AddBlock(data, timestamp, fail) ==
    /\ pc = "open"
    /\ nappend < MaxAppend
    /\ nappend' = nappend + 1
    /\ dbBefore' = db
    /\ tipBefore' = current_hash
    /\ prevVal' = NoResult
    /\ UNCHANGED <<pc, search_hash, tamper, ntamper>>
    /\ LET new_block == BlockNew(data, current_hash, timestamp)
           w == AddBlockWrites(new_block)
       IN  /\ current_hash' = TipAfterAdd(fail, current_hash, new_block.hash)
           /\ CASE fail = "insert_block" ->
                     /\ result' = Res("append", "Err", "StoreError", 0)
                     /\ faults' = TRUE
                     /\ UNCHANGED <<disk, pending>>
                [] fail = "insert_last" ->
                     /\ result' = Res("append", "Err", "StoreError", 0)
                     /\ faults' = TRUE
                     /\ pending' = pending \o <<w[1]>>
                     /\ UNCHANGED disk
                [] fail = "flush" ->
                     /\ result' = Res("append", "Err", "StoreError", 0)
                     /\ faults' = TRUE
                     /\ pending' = pending \o w
                     /\ UNCHANGED disk
                [] OTHER ->
                     /\ result' = Res("append", "Ok", "", new_block.hash)
                     /\ disk' = ApplyLog(disk, pending \o w)
                     /\ pending' = <<>>
                     /\ UNCHANGED faults
           /\ appended' = Tracked(faults', ntamper,
                   Append(appended, [data |-> data, hash |-> new_block.hash]), <<>>)
           /\ opened' = Tracked(faults', ntamper, opened, NotOpened)

\* --------------------------------------------- Blockchain::is_chain_valid
ValidateStart ==
    /\ pc = "open"
    /\ pc' = "validating"
    /\ search_hash' = current_hash
    /\ dbBefore' = db
    /\ tipBefore' = current_hash
    /\ prevVal' = IF result.op = "validate" THEN result ELSE NoResult
    /\ result' = NoResult
    /\ UNCHANGED <<disk, pending, current_hash, tamper, ntamper, nappend, faults,
                   appended, opened>>

\* CHECK 1: the stored hash against the hash recomputed from the fields
\* variant: CHECK 1 left out
HashMismatch_Skipped(block) == FALSE

\* variant: CHECK 1 with == for !=
HashMismatch_Inverted(block) ==
    block.hash = calculate_hash(block.timestamp, block.data, block.prev_hash)

HashMismatch(block) ==
    block.hash # calculate_hash(block.timestamp, block.data, block.prev_hash)

\* the None arm of the lookup
\* variant: a missing block ends the walk, as it does in print_chain
OnMissing_Break(h) == Res("validate", "Ok(true)", "GenesisReached", h)

OnMissing(h) == Res("validate", "Ok(false)", "BrokenLink", h)

\* variant: the walk advances the tip itself
TipInLoop_Moved(tip, next_hash) == next_hash

\* is_chain_valid takes &self and walks with a clone of the tip
TipInLoop(tip, next_hash) == tip

\* what one iteration of the loop does with the store as it is:
\* the value returned (with the line printed) or "continue" with the next hash
LoopBody(s, h, fail) ==
    IF fail THEN Res("validate", "Err", "StoreError", h)
    ELSE IF h \notin DOMAIN s THEN OnMissing(h)
    ELSE IF s[h].kind = "badutf8" THEN Res("validate", "Err", "DecodeError", h)
    ELSE IF s[h].kind # "json" THEN Res("validate", "Err", "JsonError", h)
    ELSE LET block == from_json(s[h])
         IN  IF HashMismatch(block)
             THEN Res("validate", "Ok(false)", "HashMismatch", block.hash)
             ELSE IF block.prev_hash = ROOT
             THEN Res("validate", "Ok(true)", "GenesisReached", h)
             ELSE Res("continue", "", "", block.prev_hash)

ValidateStep(fail) ==
    /\ pc = "validating"
    /\ LET r == LoopBody(db, search_hash, fail)
       IN  IF r.op = "continue"
           THEN /\ search_hash' = r.at
                /\ current_hash' = TipInLoop(current_hash, r.at)
                /\ UNCHANGED <<pc, result, faults>>
           ELSE /\ result' = r
                /\ pc' = "open"
                /\ faults' = (faults \/ r.msg = "StoreError")
                /\ UNCHANGED <<search_hash, current_hash>>
    /\ appended' = Tracked(faults', ntamper, appended, <<>>)
    /\ opened' = Tracked(faults', ntamper, opened, NotOpened)
    /\ UNCHANGED <<disk, pending, dbBefore, tipBefore, prevVal,
                   tamper, ntamper, nappend>>

\* ------------------------------------------------------- process lifetime
\* the Blockchain value is dropped: sled flushes on drop
Close ==
    /\ pc = "open"
    /\ pc' = "closed"
    /\ disk' = db
    /\ pending' = <<>>
    /\ current_hash' = ROOT
    /\ search_hash' = ROOT
    /\ result' = NoResult
    /\ prevVal' = NoResult
    /\ dbBefore' = db
    /\ tipBefore' = current_hash
    /\ opened' = NotOpened
    /\ UNCHANGED <<tamper, ntamper, nappend, faults, appended>>

\* the process dies at any point between two calls, which covers a point
\* inside a call: the store is then as after the call failing at its next
\* store operation.  sled logs writes in order, so what survives is the
\* flushed content and the first k unflushed writes.
Crash(k) ==
    /\ pc \in {"open", "validating"}
    /\ k \in 0..Len(pending)
    /\ pc' = "closed"
    /\ disk' = ApplyLog(disk, SubSeq(pending, 1, k))
    /\ pending' = <<>>
    /\ current_hash' = ROOT
    /\ search_hash' = ROOT
    /\ result' = Res("crash", "", "", 0)
    /\ prevVal' = NoResult
    /\ dbBefore' = db
    /\ tipBefore' = current_hash
    /\ faults' = TRUE
    /\ opened' = NotOpened
    /\ appended' = <<>>
    /\ UNCHANGED <<tamper, ntamper, nappend>>

\* ------------------------------------- out-of-band changes of the store
\* Somebody edits the files of the store while no process has it open.
BlockKeys(s) == {k \in DOMAIN s : k # LAST /\ s[k].kind = "json"}

Tampered(kind, key, s) ==
    /\ pc = "closed"
    /\ ntamper < MaxTamper
    /\ ntamper' = ntamper + 1
    /\ tamper' = [kind |-> kind, key |-> key,
                  val |-> IF key \in DOMAIN s THEN s[key] ELSE Garbage("absent")]
    /\ disk' = s
    /\ dbBefore' = disk
    /\ result' = NoResult
    /\ prevVal' = NoResult
    /\ appended' = <<>>
    /\ opened' = NotOpened
    /\ UNCHANGED <<pending, pc, current_hash, search_hash, tipBefore, nappend, faults>>

\* a record's payload is edited, its hash field left as it was
TamperPayload(k, d) ==
    /\ k \in BlockKeys(disk)
    /\ d # disk[k].data
    /\ Tampered("payload", k, Put(disk, k, [disk[k] EXCEPT !.data = d]))

\* a record's payload is edited and its hash field recomputed
TamperForge(k, d) ==
    /\ k \in BlockKeys(disk)
    /\ d # disk[k].data
    /\ Tampered("forge", k,
         Put(disk, k, [disk[k] EXCEPT !.data = d,
               !.hash = calculate_hash(disk[k].timestamp, d, disk[k].prev_hash)]))

\* an entry is removed
DeleteRecord(k) ==
    /\ k \in DOMAIN disk
    /\ Tampered("delete", k, Del(disk, k))

\* a record's bytes are overwritten by something that is not a block
CorruptRecord(k, kind) ==
    /\ k \in BlockKeys(disk)
    /\ kind \in {"badutf8", "badjson"}
    /\ Tampered("corrupt", k, Put(disk, k, Garbage(kind)))

\* a record's prev_hash is pointed at another stored block and its hash field
\* recomputed
TamperLink(k, p) ==
    /\ k \in BlockKeys(disk)
    /\ p \in BlockKeys(disk)
    /\ p # disk[k].prev_hash
    /\ Tampered("link", k,
         Put(disk, k, [disk[k] EXCEPT !.prev_hash = p,
               !.hash = calculate_hash(disk[k].timestamp, disk[k].data, p)]))

\* hashes of the first-level blocks: texts that look like a hash
TipTexts == {calculate_hash(t, d, ROOT) : t \in Timestamps, d \in Payloads}

\* the tip entry is overwritten
TamperTip(v) ==
    /\ LAST \in DOMAIN disk
    /\ v # disk[LAST]
    /\ Tampered("tip", LAST, Put(disk, LAST, v))

TipForgeries ==
    {as_bytes(h) : h \in BlockKeys(disk) \cup TipTexts} \cup {Garbage("badutf8")}

Next ==
    \/ \E fail \in OpenFails, t \in Timestamps : Open(fail, t)
    \/ \E d \in Payloads, t \in Timestamps, fail \in AddFails : AddBlock(d, t, fail)
    \/ ValidateStart
    \/ \E fail \in BOOLEAN : ValidateStep(fail)
    \/ Close
    \/ \E k \in 0..2 : Crash(k)
    \/ \E k \in DOMAIN disk, d \in Payloads : TamperPayload(k, d)
    \/ \E k \in DOMAIN disk, d \in Payloads : TamperForge(k, d)
    \/ \E k \in DOMAIN disk : DeleteRecord(k)
    \/ \E k \in DOMAIN disk, kind \in {"badutf8", "badjson"} : CorruptRecord(k, kind)
    \/ \E v \in TipForgeries : TamperTip(v)
    \/ \E k \in DOMAIN disk, p \in DOMAIN disk : TamperLink(k, p)

Spec == Init /\ [][Next]_vars

\* -------------------------------------------------------------------- main
\* One run of the program is new, is_chain_valid, add_block, print_chain.
\* Where main stands follows from the last result: new().unwrap() panics on
\* Err, so a chain exists only after Ok.

\* main.rs:165: the check on load
MainValidate == result.op = "open" /\ ValidateStart

\* main.rs:175: reached after Ok(true) and, through the arm that only prints
\* the error, after Err
MainAddBlock ==
    /\ pc = "open"
    /\ result.op = "validate"
    /\ result.ret # "Ok(false)"
    /\ \E t \in Timestamps, fail \in AddFails : AddBlock(MainData, t, fail)

\* main returns after Ok(false), and ends after add_block (unwrap panics on
\* Err, print_chain only reads)
MainExit ==
    /\ \/ result.op = "append"
       \/ result.op = "validate" /\ result.ret = "Ok(false)"
    /\ Close

MainNext ==
    \/ \E fail \in OpenFails, t \in Timestamps : Open(fail, t)
    \/ MainValidate
    \/ \E fail \in BOOLEAN : ValidateStep(fail)
    \/ MainAddBlock
    \/ MainExit
    \/ \E k \in 0..2 : Crash(k)
    \/ \E k \in DOMAIN disk, d \in Payloads : TamperPayload(k, d)
    \/ \E k \in DOMAIN disk, d \in Payloads : TamperForge(k, d)
    \/ \E k \in DOMAIN disk : DeleteRecord(k)
    \/ \E k \in DOMAIN disk, kind \in {"badutf8", "badjson"} : CorruptRecord(k, kind)
    \/ \E v \in TipForgeries : TamperTip(v)
    \/ \E k \in DOMAIN disk, p \in DOMAIN disk : TamperLink(k, p)

\* a call of is_chain_valid that has started keeps executing its loop
FairSpec == Spec /\ WF_vars(\E fail \in BOOLEAN : ValidateStep(fail))

MainSpec == Init /\ [][MainNext]_vars

\* ------------------------------------------------- vocabulary of the claims
\* the keys the prev_hash links lead through, starting at h
RECURSIVE Visited(_, _, _)
Visited(s, h, n) ==
    IF n = 0 \/ h \notin DOMAIN s THEN {}
    ELSE IF s[h].kind # "json" \/ s[h].prev_hash = ROOT THEN {h}
    ELSE {h} \cup Visited(s, s[h].prev_hash, n - 1)

ChainKeys == Visited(db, current_hash, Cardinality(DOMAIN db) + 1)

\* the hashes some block of the chain names as its predecessor
ChainLinks == {db[k].prev_hash : k \in {x \in ChainKeys : db[x].kind = "json"}}

\* is_chain_valid has returned and nothing was called since
ValidateDone == pc = "open" /\ result.op = "validate"

\* the store has been modified out of band exactly once, in the given way,
\* and the entry is still as the modification left it
OneTamper(kind) ==
    /\ ntamper = 1
    /\ tamper.kind = kind
    /\ IF tamper.key \in DOMAIN db THEN db[tamper.key] = tamper.val
       ELSE tamper.val = Garbage("absent")

TypeOK ==
    /\ pc \in {"closed", "open", "validating"}
    /\ pc = "closed" => pending = <<>>
    /\ LAST \in DOMAIN db => db[LAST].kind \in {"utf8", "badutf8"}

\* ------------------------------------------------------------------ claims

\* C1: from an empty store, after open and any sequence of successful
\* add_block calls (no failed call, no crash, no out-of-band change),
\* is_chain_valid returns Ok(true).
C1_AppendThenValid ==
    (ValidateDone /\ ntamper = 0 /\ ~faults) => result.ret = "Ok(true)"

\* two blocks with the same payload were appended and the chain validated
C1_Witness ==
    /\ ValidateDone /\ ntamper = 0 /\ ~faults
    /\ nappend = MaxAppend
    /\ result.ret = "Ok(true)"
    /\ current_hash \in DOMAIN db
    /\ db[current_hash].prev_hash \in DOMAIN db
    /\ db[current_hash].data = db[db[current_hash].prev_hash].data

\* C2: when the payload of one block of the chain was edited with its hash
\* field left alone, is_chain_valid never returns Ok(true), and unless a store
\* read fails it returns Ok(false) reporting a hash mismatch at that block.
C2_TamperedPayloadDetected ==
    (ValidateDone /\ OneTamper("payload") /\ tamper.key \in ChainKeys)
        => /\ result.ret # "Ok(true)"
           /\ result.msg # "StoreError"
                => result = Res("validate", "Ok(false)", "HashMismatch", tamper.key)

\* a middle block was edited and the mismatch reported at it
C2_Witness ==
    /\ ValidateDone /\ OneTamper("payload") /\ tamper.key \in ChainKeys
    /\ tamper.key # current_hash
    /\ db[tamper.key].prev_hash # ROOT
    /\ result = Res("validate", "Ok(false)", "HashMismatch", tamper.key)

\* C3: when the record of a block that some block of the chain names as its
\* predecessor was deleted, is_chain_valid never returns Ok(true), and unless
\* a store read fails it returns Ok(false) (not Err) reporting a broken link
\* at the missing hash.
C3_DeletedBlockBrokenLink ==
    (ValidateDone /\ OneTamper("delete") /\ tamper.key \notin DOMAIN db
       /\ tamper.key \in ChainLinks)
        => /\ result.ret # "Ok(true)"
           /\ result.msg # "StoreError"
                => result = Res("validate", "Ok(false)", "BrokenLink", tamper.key)

\* the predecessor of the tip was deleted and the broken link reported
C3_Witness ==
    /\ ValidateDone /\ OneTamper("delete") /\ tamper.key \notin DOMAIN db
    /\ current_hash \in DOMAIN db
    /\ db[current_hash].prev_hash = tamper.key
    /\ result = Res("validate", "Ok(false)", "BrokenLink", tamper.key)

\* C4: when a block that has a descendant in the chain had its payload edited
\* and its own hash field recomputed, is_chain_valid does not return Ok(true).
C4_ForgedBlockDetected ==
    (ValidateDone /\ OneTamper("forge") /\ tamper.key \in ChainKeys
       /\ tamper.key \in ChainLinks)
        => result.ret # "Ok(true)"

\* C5: when add_block returns Err, whichever store operation failed, the
\* in-memory tip is what it was before the call.
C5_FailedAppendKeepsTip ==
    (result.op = "append" /\ result.ret = "Err") => current_hash = tipBefore

\* the persisted store after a crash that lets the first k unflushed writes
\* reach the disk
Survives(k) == ApplyLog(disk, SubSeq(pending, 1, k))

\* C6: as long as nobody edits the store files, at every point where the
\* process may crash the persisted tip key, if present, names a block record
\* that is present in the persisted store.
C6_TipNeverDangling ==
    ntamper = 0 =>
        \A k \in 0..Len(pending) :
            LET s == Survives(k)
            IN  LAST \in DOMAIN s =>
                    /\ s[LAST].kind = "utf8"
                    /\ s[LAST].hash \in DOMAIN s
                    /\ s[s[LAST].hash] .kind = "json"
                    /\ s[s[LAST].hash].hash = s[LAST].hash

\* after a crash during add_block the block record is on disk and the tip key
\* still names its predecessor
C6_Witness ==
    /\ result.op = "crash" /\ ntamper = 0
    /\ LAST \in DOMAIN disk
    /\ \E k \in BlockKeys(disk) : disk[k].prev_hash = disk[LAST].hash

\* C7: when the bytes of a block of the chain do not decode as a block,
\* is_chain_valid returns Ok(false) reporting a corrupt record at that hash,
\* unless a store read fails.
C7_CorruptIsResult ==
    (ValidateDone /\ OneTamper("corrupt") /\ tamper.key \in ChainKeys
       /\ result.msg # "StoreError")
        => result = Res("validate", "Ok(false)", "Corrupt", tamper.key)

\* C8: Blockchain::new that succeeds on a store without the tip key adds one
\* genesis block with prev_hash "0" under the key equal to its hash, writes
\* that hash under "LAST", leaves every other entry alone and returns a chain
\* whose tip is that hash.
C8_FirstRunGenesis ==
    (result.op = "open" /\ result.ret = "Ok" /\ LAST \notin DOMAIN dbBefore)
        => /\ pc = "open"
           /\ DOMAIN db = (DOMAIN dbBefore) \cup {current_hash, LAST}
           /\ db[current_hash].kind = "json"
           /\ db[current_hash].prev_hash = ROOT
           /\ db[current_hash].hash = current_hash
           /\ db[LAST] = as_bytes(current_hash)
           /\ \A k \in (DOMAIN dbBefore) \ {current_hash} : db[k] = dbBefore[k]

\* the first run on the empty store
C8_Witness ==
    /\ result.op = "open" /\ result.ret = "Ok"
    /\ dbBefore = EmptyStore
    /\ DOMAIN db = {current_hash, LAST}
    /\ db[current_hash].prev_hash = ROOT

\* C9: Blockchain::new on a store that has the tip key changes no entry; unless
\* the store cannot be opened or read, it returns a decode error exactly when
\* the tip bytes are not UTF-8, and otherwise succeeds with the decoded tip,
\* whatever that tip refers to.
C9_OpenExistingNoWriteNoCheck ==
    (result.op = "open" /\ LAST \in DOMAIN dbBefore)
        => /\ db = dbBefore
           /\ result.msg # "StoreError" =>
                /\ (result.ret = "Err" /\ result.msg = "DecodeError")
                        <=> dbBefore[LAST].kind = "badutf8"
                /\ dbBefore[LAST].kind # "badutf8" =>
                        /\ result.ret = "Ok"
                        /\ pc = "open"
                        /\ current_hash = dbBefore[LAST].hash

\* new succeeded although the tip names a block that is not in the store
C9_Witness ==
    /\ result.op = "open" /\ result.ret = "Ok"
    /\ LAST \in DOMAIN dbBefore
    /\ db = dbBefore
    /\ current_hash \notin DOMAIN db

\* C10: is_chain_valid changes neither the store nor the in-memory tip, and
\* two calls in a row that both read the store successfully return the same.
C10_ValidateIdempotent ==
    ValidateDone =>
        /\ db = dbBefore
        /\ current_hash = tipBefore
        /\ (prevVal.op = "validate" /\ prevVal.msg # "StoreError"
              /\ result.msg # "StoreError") => result = prevVal

\* two calls in a row on a chain with a block missing
C10_Witness ==
    /\ ValidateDone
    /\ prevVal.op = "validate"
    /\ result = prevVal
    /\ result.msg = "BrokenLink"
    /\ current_hash \in DOMAIN db
\* an entry as Block::new and the inserts leave it: a block record stored
\* under its own hash, which is the hash of its fields
ProgramWritten(s, k) ==
    /\ k # LAST
    /\ s[k].kind = "json"
    /\ s[k].hash = k
    /\ s[k].hash = calculate_hash(s[k].timestamp, s[k].data, s[k].prev_hash)

\* C11: no call of new or add_block, successful or failed, changes or removes
\* a block entry that the program wrote; unless the store files were edited
\* every entry but "LAST" is such an entry, so "LAST" is the only one whose
\* value changes; and every successful add_block stores a new value under it.
C11_AppendOnly ==
    [][ result'.op \in {"open", "append"} =>
          /\ \A k \in DOMAIN db :
                ProgramWritten(db, k) => (k \in DOMAIN db' /\ db'[k] = db[k])
          /\ ntamper = 0 => \A k \in (DOMAIN db) \ {LAST} : ProgramWritten(db, k)
          /\ (nappend' = nappend + 1 /\ result'.ret = "Ok") =>
                /\ LAST \in DOMAIN db'
                /\ db'[LAST] = as_bytes(result'.at)
                /\ LAST \in DOMAIN db => db'[LAST] # db[LAST]
      ]_vars

\* a successful add_block on a store holding two blocks: "LAST" has a new
\* value and the block entries are as before
C11_Witness ==
    /\ result.op = "append" /\ result.ret = "Ok"
    /\ LAST \in DOMAIN dbBefore
    /\ Cardinality(DOMAIN dbBefore) >= 3
    /\ db[LAST] # dbBefore[LAST]
    /\ \A k \in (DOMAIN dbBefore) \ {LAST} : k \in DOMAIN db /\ db[k] = dbBefore[k]
\* C12: while a Blockchain value exists and the store files were not edited,
\* the in-memory tip is the key of a block record in the store, whichever
\* store operations of earlier add_block calls failed.
C12_TipResolves ==
    (pc # "closed" /\ ntamper = 0) =>
        /\ current_hash \in DOMAIN db
        /\ ProgramWritten(db, current_hash)

\* add_block failed at the flush and left the tip at the new block, which
\* is in the store
C12_Witness ==
    /\ result.op = "append" /\ result.ret = "Err"
    /\ ntamper = 0
    /\ current_hash # tipBefore
    /\ current_hash \in DOMAIN db
    /\ db[current_hash].prev_hash = tipBefore
\* C13 (under MainSpec): when the check on load found the chain invalid, be it
\* a broken link, a hash mismatch or a record that does not decode, main does
\* not go on to add_block.
C13_NoAppendAfterInvalid ==
    [][ (result.op = "validate" /\ result.ret # "Ok(true)"
           /\ result.msg # "StoreError") => nappend' = nappend ]_vars
\* C14 (under FairSpec): every call of is_chain_valid returns.
C14_ValidateTerminates == (pc = "validating") ~> (pc # "validating")
\* the keys the prev_hash links lead through, starting at h, in order
RECURSIVE ChainSeq(_, _, _)
ChainSeq(s, h, n) ==
    IF n = 0 \/ h \notin DOMAIN s THEN <<>>
    ELSE IF s[h].kind # "json" \/ s[h].prev_hash = ROOT THEN <<h>>
    ELSE <<h>> \o ChainSeq(s, s[h].prev_hash, n - 1)

\* no call failed, no crash, no edit of the store files
Clean == ~faults /\ ntamper = 0

\* C15: the block a successful add_block stores names the in-memory tip of
\* the time of the call as its predecessor; and after new on an empty store
\* and n successful add_block calls the links from the tip lead through n+1
\* distinct blocks, the appended payloads last first, then the genesis block,
\* whose prev_hash is "0".
C15_LinkedInOrder ==
    /\ (result.op = "append" /\ result.ret = "Ok") =>
          /\ current_hash \in DOMAIN db
          /\ db[current_hash].prev_hash = tipBefore
          /\ Clean => db[current_hash].data = appended[Len(appended)].data
    /\ (pc # "closed" /\ Clean) =>
          LET c == ChainSeq(db, current_hash, Cardinality(DOMAIN db) + 1)
              n == Len(appended)
          IN  /\ Len(c) = n + 1
              /\ Cardinality({c[i] : i \in 1..Len(c)}) = n + 1
              /\ \A i \in 1..n :
                    /\ c[i] = appended[n + 1 - i].hash
                    /\ db[c[i]].data = appended[n + 1 - i].data
              /\ db[c[n + 1]].data = GenesisData
              /\ db[c[n + 1]].prev_hash = ROOT

\* two different payloads were appended and the chain reads them back last
\* first
C15_Witness ==
    /\ pc = "open" /\ Clean
    /\ Len(appended) = 2
    /\ appended[1].data # appended[2].data
    /\ db[current_hash].data = appended[2].data
    /\ db[db[current_hash].prev_hash].data = appended[1].data
    /\ db[db[db[current_hash].prev_hash].prev_hash].prev_hash = ROOT
\* C16: every block entry that a call of new or add_block wrote or rewrote is
\* stored under the key equal to its hash field, and that field is the hash of
\* its timestamp, payload and prev_hash; unless the store files were edited
\* this holds of every block entry of the store.
C16_ContentAddressed ==
    /\ result.op \in {"open", "append"} =>
          \A k \in (DOMAIN db) \ {LAST} :
              (k \notin DOMAIN dbBefore \/ db[k] # dbBefore[k])
                  => ProgramWritten(db, k)
    /\ ntamper = 0 => \A k \in (DOMAIN db) \ {LAST} : ProgramWritten(db, k)

\* add_block has just written a block on top of another one
C16_Witness ==
    /\ result.op = "append"
    /\ \E k \in (DOMAIN db) \ (DOMAIN dbBefore) :
          /\ ProgramWritten(db, k)
          /\ db[k].prev_hash \in DOMAIN db
          /\ db[k].prev_hash # ROOT
\* C17: in a run without failures, crash or edits, new on the store that a
\* dropped chain left behind writes nothing and returns a chain whose tip is
\* the hash of the last appended block; is_chain_valid on it returns Ok(true)
\* after walking the appended blocks and the one genesis block.
C17_ReopenKeepsChain ==
    /\ (result.op = "open" /\ result.ret = "Ok" /\ Clean /\ Len(appended) > 0) =>
          /\ opened.how = "loaded"
          /\ current_hash = appended[Len(appended)].hash
          /\ db = dbBefore
    /\ (ValidateDone /\ Clean /\ opened.how = "loaded") =>
          /\ result.ret = "Ok(true)"
          /\ db[result.at].data = GenesisData
          /\ ChainKeys = {appended[i].hash : i \in 1..Len(appended)} \cup {result.at}
          /\ Cardinality(ChainKeys) = Len(appended) + 1

\* the chain was loaded after two blocks had been appended, and validated
C17_Witness ==
    /\ ValidateDone /\ Clean
    /\ opened = [how |-> "loaded", had |-> 2]
    /\ current_hash = appended[2].hash
    /\ result.ret = "Ok(true)"
\* C18: after new or add_block returned Ok, the value under "LAST" is the
\* bytes of the in-memory tip; the tip is the hash of the block the call wrote
\* or, when new found "LAST" in the store, the value that was stored there.
C18_TipKeyMatchesTip ==
    (result.op \in {"open", "append"} /\ result.ret = "Ok") =>
        /\ LAST \in DOMAIN db
        /\ db[LAST] = as_bytes(current_hash)
        /\ current_hash = result.at
        /\ IF result.op = "open" /\ LAST \in DOMAIN dbBefore
           THEN db[LAST] = dbBefore[LAST]
           ELSE /\ current_hash \in DOMAIN db
                /\ ProgramWritten(db, current_hash)
                /\ result.op = "append" => db[current_hash].prev_hash = tipBefore

\* add_block has stored a new block and "LAST" names it
C18_Witness ==
    /\ result.op = "append" /\ result.ret = "Ok"
    /\ current_hash \notin DOMAIN dbBefore
    /\ db[LAST] = as_bytes(current_hash)
    /\ dbBefore[LAST] = as_bytes(tipBefore)
    /\ current_hash # tipBefore
\* C19: as long as the store files are not edited, is_chain_valid returns
\* Ok(true) whenever its reads succeed, whichever store operations of earlier
\* add_block calls failed; and a successful add_block links its block to the
\* in-memory tip the earlier calls left, which is a block of the store.
C19_FailedAppendKeepsValid ==
    /\ (ValidateDone /\ ntamper = 0 /\ result.msg # "StoreError")
          => result.ret = "Ok(true)"
    /\ (result.op = "append" /\ result.ret = "Ok" /\ ntamper = 0) =>
          /\ tipBefore \in DOMAIN dbBefore
          /\ db[current_hash].prev_hash = tipBefore

\* add_block failed at the tip-key write and left a block nobody links to,
\* not yet flushed; the chain still validates
C19_Witness ==
    /\ ValidateDone /\ ntamper = 0 /\ faults
    /\ result.ret = "Ok(true)"
    /\ \E i \in 1..Len(pending) :
          /\ pending[i][1] # LAST
          /\ pending[i][1] \notin ChainKeys
\* C20: when the only edit of the store was to overwrite "LAST" with the hash
\* of a block of the store, the chain loaded from it validates: is_chain_valid
\* returns Ok(true) unless a store read fails, although the blocks after the
\* new tip are still in the store.
C20_TruncationNotDetected ==
    (ValidateDone /\ OneTamper("tip") /\ tamper.val.kind = "utf8"
       /\ tamper.val.hash \in BlockKeys(db) /\ result.msg # "StoreError")
        => /\ current_hash = tamper.val.hash
           /\ result.ret = "Ok(true)"

\* "LAST" was moved back to an ancestor of the tip of a chain built without
\* failures; the block that follows the new tip is still stored
C20_Witness ==
    /\ ValidateDone /\ OneTamper("tip") /\ ~faults
    /\ current_hash = tamper.val.hash
    /\ \E k \in BlockKeys(db) : db[k].prev_hash = current_hash
    /\ result.ret = "Ok(true)"
====
